---- MODULE Spec2Model ----
(***************************************************************************)
(* Retirement planning calculator (calculations.py).                       *)
(*                                                                         *)
(* Number representation.  The code computes in Python floats.  Here a     *)
(* money amount is an integer number of rupees and a rate or growth factor *)
(* is a fixed-point number with RateScale units per 1.0 (0.12 is 120000).  *)
(* Every multiplication and division rounds its result to the nearest      *)
(* representable value, as a float operation does at its own precision.    *)
(*                                                                         *)
(* A call of one of the module's functions is one action: the state holds  *)
(* the pending call (function name and arguments), and the action stores   *)
(* what the function returns.                                              *)
(***************************************************************************)
EXTENDS Integers, Sequences, FiniteSets, TLC

\* Under Spec one call is made.  Under SpecBatch several invocations share the
\* caller's record, and pc and ret hold one entry for each of them.
VARIABLES
  pc,     \* "ready" before the call, "returned" or "raised" after it
          \* (SpecBatch: also "called" while the invocation runs)
  call,   \* [fn |-> name of the function, args |-> tuple of its arguments]
          \* (SpecBatch: also frames, the record each what-if has built)
  ret,    \* the value the call returned (0 until it has returned)
  session_state   \* st.session_state of the chat application (app.py)

vars == <<pc, call, ret, session_state>>

(***************************************************************************)
(* Bounds of the explored input space.                                     *)
(***************************************************************************)
MinAge == 58
MaxAge == 61
MaxYears == 3
MaxRetirementAge == 65

(***************************************************************************)
(* Float arithmetic.                                                       *)
(***************************************************************************)
RateScale == 10 ^ 6
One == RateScale

Abs(v) == IF v < 0 THEN -v ELSE v
Sgn(v) == IF v < 0 THEN -1 ELSE 1
Max(a, b) == IF b > a THEN b ELSE a

\* <<q, r>> with a * b = q * d + r and 0 <= r < d, for a, b >= 0 and d > 0,
\* computed without forming the product a * b.
RECURSIVE MulDivRem(_, _, _)
MulDivRem(a, b, d) ==
  IF b = 0 THEN <<0, 0>>
  ELSE LET h == MulDivRem(a, b \div 2, d)
           t == 2 * h[2] + (IF b % 2 = 1 THEN a % d ELSE 0)
       IN <<2 * h[1] + (IF b % 2 = 1 THEN a \div d ELSE 0) + t \div d, t % d>>

\* a * b / d rounded to the nearest integer (d # 0).
FMulDiv(a, b, d) ==
  LET h == MulDivRem(Abs(a), Abs(b), Abs(d))
      q == IF 2 * h[2] >= Abs(d) THEN h[1] + 1 ELSE h[1]
  IN Sgn(a) * Sgn(b) * Sgn(d) * q

\* v * f for a rate or factor f (v is money or a factor): v * f / RateScale
\* rounded to the nearest integer.  v is split at 10^6 and 10^3 and f at 10^3,
\* so that no partial product leaves the integer range.
Mul(v, f) ==
  LET a == Abs(v)
      b == Abs(f)
      am == (a % RateScale) \div 1000
      al == a % 1000
      bh == b \div 1000
      bl == b % 1000
      x == am * bl + al * bh
      y == (x % 1000) * 1000 + al * bl
      q == (a \div RateScale) * b + am * bh + x \div 1000 + y \div RateScale
  IN Sgn(v) * Sgn(f) * (IF 2 * (y % RateScale) >= RateScale THEN q + 1 ELSE q)

\* <<q, s>> with r * 10^k = q * d + s and 0 <= s < d: k digits of the long
\* division of r by d.
RECURSIVE LongDiv(_, _, _)
LongDiv(r, d, k) ==
  IF k = 0 THEN <<0, r>>
  ELSE LET h == LongDiv(r, d, k - 1)
       IN <<10 * h[1] + (10 * h[2]) \div d, (10 * h[2]) % d>>

\* v / f for a rate or factor f # 0: v * RateScale / f rounded to the nearest
\* integer.
Div(v, f) ==
  LET a == Abs(v)
      d == Abs(f)
      h == LongDiv(a % d, d, 6)
      q == (a \div d) * RateScale + h[1]
  IN Sgn(v) * Sgn(f) * (IF 2 * h[2] >= d THEN q + 1 ELSE q)

\* f ** n for an integer n.
RECURSIVE Pow(_, _)
Pow(f, n) ==
  IF n < 0 THEN Div(One, Pow(f, -n))
  ELSE IF n = 0 THEN One
  ELSE LET h == Pow(f, n \div 2)
           s == Mul(h, h)
       IN IF n % 2 = 0 THEN s ELSE Mul(s, f)

\* Factors below 1 whose distance from 1 matters are kept at FineScale units
\* per 1.0.
FineScale == 10 ^ 9

\* a * b / FineScale rounded to the nearest integer, for 0 <= a, b: both are
\* split at 10^3 and 10^6, so that no partial product leaves the integer range.
MulFine(a, b) ==
  LET a2 == a \div RateScale
      a1 == (a \div 1000) % 1000
      a0 == a % 1000
      b2 == b \div RateScale
      b1 == (b \div 1000) % 1000
      b0 == b % 1000
      s2 == a2 * b0 + a1 * b1 + a0 * b2
      v == (s2 % 1000) * 1000 + a1 * b0 + a0 * b1
      w == (v % RateScale) * 1000 + a0 * b0
      q == a2 * b2 * 1000 + a2 * b1 + a1 * b2 + s2 \div 1000 + v \div RateScale
             + w \div FineScale
  IN IF 2 * (w % FineScale) >= FineScale THEN q + 1 ELSE q

\* a / b for factors a, b > 0 at RateScale, at FineScale units per 1.0.
DivFine(a, b) ==
  LET h == LongDiv(a % b, b, 9)
      q == (a \div b) * FineScale + h[1]
  IN IF 2 * h[2] >= b THEN q + 1 ELSE q

\* f ** n for a factor f at FineScale and n >= 0.
RECURSIVE PowFine(_, _)
PowFine(f, n) ==
  IF n = 0 THEN FineScale
  ELSE LET h == PowFine(f, n \div 2)
           s == MulFine(h, h)
       IN IF n % 2 = 0 THEN s ELSE MulFine(s, f)

\* <<q, r>> with a * b = q * d + r and 0 <= r < d, for a, b >= 0 and d > 0,
\* taking the decimal digits of b one at a time.
RECURSIVE DecMulDivRem(_, _, _)
DecMulDivRem(a, b, d) ==
  IF b = 0 THEN <<0, 0>>
  ELSE LET h == DecMulDivRem(a, b \div 10, d)
           t == 10 * h[2] + (b % 10) * (a % d)
       IN <<10 * h[1] + (b % 10) * (a \div d) + t \div d, t % d>>

\* round(a / u) of Python 3: to the nearest integer, ties to the even one
\* (a >= 0, u > 0).
RoundHalfEven(a, u) ==
  LET q == a \div u
      r == a % u
  IN IF 2 * r < u THEN q
     ELSE IF 2 * r > u THEN q + 1
     ELSE IF q % 2 = 0 THEN q ELSE q + 1

(***************************************************************************)
(* Strings are sequences of characters, so that str.lower() is computed.   *)
(***************************************************************************)
UpperCase == <<"A", "B", "C", "D", "E", "F", "G", "H", "I", "J", "K", "L", "M",
               "N", "O", "P", "Q", "R", "S", "T", "U", "V", "W", "X", "Y", "Z">>
LowerCase == <<"a", "b", "c", "d", "e", "f", "g", "h", "i", "j", "k", "l", "m",
               "n", "o", "p", "q", "r", "s", "t", "u", "v", "w", "x", "y", "z">>

lower_char(c) ==
  IF \E k \in 1..26 : UpperCase[k] = c
  THEN LowerCase[CHOOSE k \in 1..26 : UpperCase[k] = c]
  ELSE c

lower(s) == [i \in 1..Len(s) |-> lower_char(s[i])]

str_conservative == <<"c", "o", "n", "s", "e", "r", "v", "a", "t", "i", "v", "e">>
str_moderate == <<"m", "o", "d", "e", "r", "a", "t", "e">>
str_balanced == <<"b", "a", "l", "a", "n", "c", "e", "d">>
str_aggressive == <<"a", "g", "g", "r", "e", "s", "s", "i", "v", "e">>
str_self_spouse == <<"s", "e", "l", "f", "_", "s", "p", "o", "u", "s", "e">>
str_children == <<"c", "h", "i", "l", "d", "r", "e", "n">>

(***************************************************************************)
(* calculations.py                                                         *)
(***************************************************************************)
\* The rates dictionary of get_return_rate.
rates ==
  [k \in {str_conservative, str_moderate, str_balanced, str_aggressive} |->
     IF k = str_conservative THEN (8 * RateScale) \div 100
     ELSE IF k = str_aggressive THEN (15 * RateScale) \div 100
     ELSE (12 * RateScale) \div 100]

\* Slip: the profile is looked up as given, without lower().
get_return_rate_case_sensitive(risk_profile) ==
  IF risk_profile \in DOMAIN rates
  THEN rates[risk_profile]
  ELSE (12 * RateScale) \div 100

get_return_rate(risk_profile) ==
  IF lower(risk_profile) \in DOMAIN rates
  THEN rates[lower(risk_profile)]
  ELSE (12 * RateScale) \div 100

\* Slip: the years <= 0 guard is missing.
calculate_future_value_unguarded(present_value, rate, years) ==
  Mul(present_value, Pow(One + rate, years))

calculate_future_value(present_value, rate, years) ==
  IF years <= 0 THEN present_value
  ELSE Mul(present_value, Pow(One + rate, years))

\* Slip: <= in place of <.
EffectivelyEqualInclusive(r, g) == Abs(r - g) <= RateScale \div 10000

\* abs(r - g) < 0.0001
EffectivelyEqual(r, g) == Abs(r - g) < RateScale \div 10000

\* pmt * (1 - ((1 + g) / (1 + r)) ** n) / (r - g), for r # g.  The quotient
\* and its power are kept at FineScale, and the product with pmt is divided
\* by r - g before it is rounded to rupees.
growing_annuity(pmt, r, g, n) ==
  LET x == FineScale - PowFine(DivFine(One + g, One + r), n)
      d == (FineScale \div RateScale) * Abs(r - g)
      h == DecMulDivRem(Abs(pmt), Abs(x), d)
      q == IF 2 * h[2] >= d THEN h[1] + 1 ELSE h[1]
  IN Sgn(pmt) * Sgn(x) * Sgn(r - g) * q

\* Slip: the equal-rate form without the discount by 1 + r.
calculate_corpus_for_retirement_undiscounted(annual_expense_at_retirement, return_rate, inflation_rate, retirement_duration) ==
  IF retirement_duration <= 0 THEN 0
  ELSE LET g == inflation_rate
           r == return_rate
           n == retirement_duration
           pmt == annual_expense_at_retirement
           corpus == IF EffectivelyEqual(r, g)
                     THEN pmt * n
                     ELSE growing_annuity(pmt, r, g, n)
       IN Max(0, corpus)

calculate_corpus_for_retirement(annual_expense_at_retirement, return_rate, inflation_rate, retirement_duration) ==
  IF retirement_duration <= 0 THEN 0
  ELSE LET g == inflation_rate
           r == return_rate
           n == retirement_duration
           pmt == annual_expense_at_retirement
           corpus == IF EffectivelyEqual(r, g)
                     THEN Div(pmt * n, One + r)
                     ELSE growing_annuity(pmt, r, g, n)
       IN Max(0, corpus)

\* The divisions of calculate_corpus_for_retirement raise ZeroDivisionError
\* on a zero divisor.
corpus_raises(return_rate, inflation_rate, retirement_duration) ==
  /\ retirement_duration > 0
  /\ \/ One + return_rate = 0
     \/ ~EffectivelyEqual(return_rate, inflation_rate) /\ return_rate - inflation_rate = 0

\* Slip: the instalment formula of a loan, fv * i * (1+i)^m / ((1+i)^m - 1).
calculate_monthly_sip_loan(future_value, annual_rate, years) ==
  IF years <= 0 THEN 0
  ELSE IF future_value <= 0 THEN 0
  ELSE LET monthly_rate == FMulDiv(annual_rate, 1, 12)
           months == years * 12
           growth == Pow(One + monthly_rate, months)
       IN IF monthly_rate = 0 THEN FMulDiv(future_value, 1, months)
          ELSE Mul(future_value, Div(Mul(monthly_rate, growth), growth - One))

\* Slip: the number of periods is the number of years, not of months.
calculate_monthly_sip_yearly(future_value, annual_rate, years) ==
  IF years <= 0 THEN 0
  ELSE IF future_value <= 0 THEN 0
  ELSE LET monthly_rate == FMulDiv(annual_rate, 1, 12)
           months == years
       IN IF monthly_rate = 0 THEN FMulDiv(future_value, 1, months)
          ELSE Mul(future_value, Div(monthly_rate, Pow(One + monthly_rate, months) - One))

\* Slip: the first guard tests years == 0, letting a negative horizon through.
calculate_monthly_sip_zero_only(future_value, annual_rate, years) ==
  IF years = 0 THEN 0
  ELSE IF future_value <= 0 THEN 0
  ELSE LET monthly_rate == FMulDiv(annual_rate, 1, 12)
           months == years * 12
       IN IF monthly_rate = 0 THEN FMulDiv(future_value, 1, months)
          ELSE Mul(future_value, Div(monthly_rate, Pow(One + monthly_rate, months) - One))

\* Slip: the divisor is written the other way round, 1 - (1+i)^m.
calculate_monthly_sip_sign(future_value, annual_rate, years) ==
  IF years <= 0 THEN 0
  ELSE IF future_value <= 0 THEN 0
  ELSE LET monthly_rate == FMulDiv(annual_rate, 1, 12)
           months == years * 12
       IN IF monthly_rate = 0 THEN FMulDiv(future_value, 1, months)
          ELSE Mul(future_value, Div(monthly_rate, One - Pow(One + monthly_rate, months)))

calculate_monthly_sip(future_value, annual_rate, years) ==
  IF years <= 0 THEN 0
  ELSE IF future_value <= 0 THEN 0
  ELSE LET monthly_rate == FMulDiv(annual_rate, 1, 12)
           months == years * 12
       IN IF monthly_rate = 0 THEN FMulDiv(future_value, 1, months)
          ELSE Mul(future_value, Div(monthly_rate, Pow(One + monthly_rate, months) - One))

\* Slip: the first guard is years < 0, so a zero horizon reaches the division.
sip_raises_zero_horizon(future_value, annual_rate, years) ==
  /\ years >= 0
  /\ future_value > 0
  /\ FMulDiv(annual_rate, 1, 12) # 0
  /\ Pow(One + FMulDiv(annual_rate, 1, 12), years * 12) - One = 0

sip_raises(future_value, annual_rate, years) ==
  /\ years > 0
  /\ future_value > 0
  /\ FMulDiv(annual_rate, 1, 12) # 0
  /\ Pow(One + FMulDiv(annual_rate, 1, 12), years * 12) - One = 0

\* The default of the parameter to_nearest.
DefaultToNearest == 500

\* Slip: int() in place of round(), which truncates.
round_to_clean_figure_truncated(amount, to_nearest_arg) ==
  IF amount <= 0 THEN 0
  ELSE LET to_nearest == IF amount > 50000 THEN 1000 ELSE to_nearest_arg
       IN (amount \div to_nearest) * to_nearest

\* Slip: every amount is rounded to the nearest 1000.
round_to_clean_figure_1000(amount, to_nearest_arg) ==
  IF amount <= 0 THEN 0
  ELSE RoundHalfEven(amount, 1000) * 1000

\* Slip: the switch to 1000 above 50000 is missing.
round_to_clean_figure_500(amount, to_nearest_arg) ==
  IF amount <= 0 THEN 0
  ELSE RoundHalfEven(amount, to_nearest_arg) * to_nearest_arg

round_to_clean_figure(amount, to_nearest_arg) ==
  IF amount <= 0 THEN 0
  ELSE LET to_nearest == IF amount > 50000 THEN 1000 ELSE to_nearest_arg
       IN RoundHalfEven(amount, to_nearest) * to_nearest

\* The default of RetirementInputs.inflation_rate ("locked at 6%").
DefaultInflationRate == (6 * RateScale) \div 100

\* Slip: a negative number of years is reported as 0.
years_to_retirement_clamped(inputs) ==
  Max(0, inputs.retirement_age - inputs.current_age)

\* The local variables of calculate_retirement_plan, as functions of inputs.
years_to_retirement(inputs) == inputs.retirement_age - inputs.current_age

\* Slip: the duration is counted from the current age.
retirement_duration_from_now(inputs) == inputs.life_expectancy - inputs.current_age

retirement_duration(inputs) == inputs.life_expectancy - inputs.retirement_age

expected_return(inputs) == get_return_rate(inputs.risk_profile)

\* Slip: the expenses are grown at the return rate.
future_annual_expenses_at_return(inputs) ==
  calculate_future_value(inputs.current_annual_expenses, expected_return(inputs),
                         years_to_retirement(inputs))

future_annual_expenses(inputs) ==
  calculate_future_value(inputs.current_annual_expenses, inputs.inflation_rate,
                         years_to_retirement(inputs))

corpus_required(inputs) ==
  calculate_corpus_for_retirement(future_annual_expenses(inputs), expected_return(inputs),
                                  inputs.inflation_rate, retirement_duration(inputs))

future_investment_value(inputs) ==
  calculate_future_value(inputs.current_investments, expected_return(inputs),
                         years_to_retirement(inputs))

\* Slip: the shortfall is not floored at zero.
corpus_gap_unfloored(inputs) ==
  corpus_required(inputs) - future_investment_value(inputs)

corpus_gap(inputs) ==
  Max(0, corpus_required(inputs) - future_investment_value(inputs))

\* Slip: the contribution is set to 0 when the expenses exceed the income.
monthly_savings_capped(inputs) ==
  IF inputs.current_annual_income > 0
       /\ inputs.current_annual_expenses > inputs.current_annual_income
  THEN 0
  ELSE calculate_monthly_sip(corpus_gap(inputs), expected_return(inputs),
                             years_to_retirement(inputs))

\* Slip: the contribution is computed for the whole corpus, not for the gap.
monthly_savings_for_corpus(inputs) ==
  calculate_monthly_sip(corpus_required(inputs), expected_return(inputs),
                        years_to_retirement(inputs))

monthly_savings(inputs) ==
  calculate_monthly_sip(corpus_gap(inputs), expected_return(inputs),
                        years_to_retirement(inputs))

monthly_savings_rounded(inputs) ==
  round_to_clean_figure(monthly_savings(inputs), DefaultToNearest)

\* Slip: the test that an income was given is missing.
income_expense_flag_any_income(inputs) ==
  inputs.current_annual_expenses > inputs.current_annual_income

income_expense_flag(inputs) ==
  /\ inputs.current_annual_income > 0
  /\ inputs.current_annual_expenses > inputs.current_annual_income

\* f"{rate * 100:.0f}" as a number: the rate in percent, rounded.
Pct(rate) == RoundHalfEven(rate * 100, RateScale)

\* The assumptions list: each entry is its fixed text, with the values the
\* f-string interpolates.
assumptions(inputs) ==
  << <<"Inflation rate: % per annum (locked)", Pct(inputs.inflation_rate)>>,
     <<"Expected investment return: % per annum ( profile)",
       Pct(expected_return(inputs)), inputs.risk_profile>>,
     <<"Life expectancy: years", inputs.life_expectancy>>,
     <<"Same return rate (%) applied pre- and post-retirement",
       Pct(expected_return(inputs))>>,
     <<"Constant monthly SIP (no step-ups)">>,
     <<"No tax implications considered">>,
     <<"No product or fund recommendations included">>,
     <<"Figures are planning-level estimates, not precise forecasts">> >>

calculate_retirement_plan(inputs) ==
  [current_age |-> inputs.current_age,
   retirement_age |-> inputs.retirement_age,
   life_expectancy |-> inputs.life_expectancy,
   years_to_retirement |-> years_to_retirement(inputs),
   retirement_duration |-> retirement_duration(inputs),
   current_annual_expenses |-> inputs.current_annual_expenses,
   future_annual_expenses |-> future_annual_expenses(inputs),
   corpus_required |-> corpus_required(inputs),
   future_investment_value |-> future_investment_value(inputs),
   corpus_gap |-> corpus_gap(inputs),
   monthly_savings_required |-> monthly_savings(inputs),
   monthly_savings_rounded |-> monthly_savings_rounded(inputs),
   expected_return_rate |-> expected_return(inputs),
   inflation_rate |-> inputs.inflation_rate,
   risk_profile |-> inputs.risk_profile,
   current_annual_income |-> inputs.current_annual_income,
   dependents |-> inputs.dependents,
   income_expense_flag |-> income_expense_flag(inputs),
   assumptions |-> assumptions(inputs)]

\* calculate_retirement_plan raises when one of its divisions does.
plan_raises(inputs) ==
  \/ corpus_raises(expected_return(inputs), inputs.inflation_rate,
                   retirement_duration(inputs))
  \/ sip_raises(corpus_gap(inputs), expected_return(inputs), years_to_retirement(inputs))

\* Slip: life_expectancy is not passed on, so the default of the dataclass applies.
whatif_inputs_default_life(base_inputs, new_retirement_age) ==
  [current_age |-> base_inputs.current_age,
   retirement_age |-> new_retirement_age,
   life_expectancy |-> 85,
   current_annual_expenses |-> base_inputs.current_annual_expenses,
   current_investments |-> base_inputs.current_investments,
   current_annual_income |-> base_inputs.current_annual_income,
   risk_profile |-> base_inputs.risk_profile,
   dependents |-> base_inputs.dependents,
   inflation_rate |-> base_inputs.inflation_rate]

\* Slip: dependents is not passed on, so the default of the dataclass applies.
whatif_inputs_default_dependents(base_inputs, new_retirement_age) ==
  [current_age |-> base_inputs.current_age,
   retirement_age |-> new_retirement_age,
   life_expectancy |-> base_inputs.life_expectancy,
   current_annual_expenses |-> base_inputs.current_annual_expenses,
   current_investments |-> base_inputs.current_investments,
   current_annual_income |-> base_inputs.current_annual_income,
   risk_profile |-> base_inputs.risk_profile,
   dependents |-> str_self_spouse,
   inflation_rate |-> base_inputs.inflation_rate]

\* The record calculate_whatif_scenario builds.
whatif_inputs(base_inputs, new_retirement_age) ==
  [current_age |-> base_inputs.current_age,
   retirement_age |-> new_retirement_age,
   life_expectancy |-> base_inputs.life_expectancy,
   current_annual_expenses |-> base_inputs.current_annual_expenses,
   current_investments |-> base_inputs.current_investments,
   current_annual_income |-> base_inputs.current_annual_income,
   risk_profile |-> base_inputs.risk_profile,
   dependents |-> base_inputs.dependents,
   inflation_rate |-> base_inputs.inflation_rate]

calculate_whatif_scenario(base_inputs, new_retirement_age) ==
  calculate_retirement_plan(whatif_inputs(base_inputs, new_retirement_age))

\* Slip: the new age is written into the caller's record, which is then used.
base_inputs_overwritten(base_inputs, new_retirement_age) ==
  [base_inputs EXCEPT !.retirement_age = new_retirement_age]

\* The caller's record after calculate_whatif_scenario: the function assigns
\* to none of its attributes.
base_inputs_after(base_inputs, new_retirement_age) == base_inputs

\* The candidate retirement ages of the export.
whatif_ages == <<55, 58, 60, 62, 65>>

\* Python's None.
None == [type |-> "NoneType"]

\* Slip: a candidate equal to the current age is kept.
qualifies_inclusive(age, inputs) == age >= inputs.current_age

\* The filter of the what-if loop of generate_excel_plan.
qualifies(age, inputs) == age > inputs.current_age

\* One row of the what-if sheet.  corpus_required is in whole rupees, which
\* is what round(scenario.corpus_required, 0) yields.
whatif_row(age, scenario) ==
  [retirement_age |-> age,
   years_to_retirement |-> scenario.years_to_retirement,
   retirement_duration |-> scenario.retirement_duration,
   corpus_required |-> scenario.corpus_required,
   monthly_sip_required |-> scenario.monthly_savings_rounded]

\* The what-if loop of generate_excel_plan from candidate k on: the caller's
\* record and the rows after the loop.
RECURSIVE whatif_loop(_, _, _)
whatif_loop(inputs, k, whatif_data) ==
  IF k > Len(whatif_ages) THEN [inputs |-> inputs, whatif_data |-> whatif_data]
  ELSE IF qualifies(whatif_ages[k], inputs)
       THEN whatif_loop(base_inputs_after(inputs, whatif_ages[k]), k + 1,
                        Append(whatif_data,
                               whatif_row(whatif_ages[k],
                                          calculate_whatif_scenario(inputs, whatif_ages[k]))))
       ELSE whatif_loop(inputs, k + 1, whatif_data)

\* The sheets written and the rows of the what-if sheet; None when pandas or
\* openpyxl cannot be imported.  result fills the other sheets only.
excel_plan(whatif_data, importable) ==
  IF ~importable THEN None
  ELSE [sheets |-> <<"Inputs", "Calculations">>
                     \o (IF whatif_data # <<>> THEN <<"What-If Scenarios">> ELSE <<>>)
                     \o <<"Assumptions & Disclaimers">>,
        whatif_data |-> whatif_data]

generate_excel_plan(result, inputs, importable) ==
  excel_plan(IF importable THEN whatif_loop(inputs, 1, <<>>).whatif_data ELSE <<>>,
             importable)

\* A scenario of the what-if loop raises (it is no ImportError, so it leaves
\* generate_excel_plan).
excel_raises(inputs, importable) ==
  /\ importable
  /\ \E k \in DOMAIN whatif_ages :
       /\ qualifies(whatif_ages[k], inputs)
       /\ plan_raises(whatif_inputs(inputs, whatif_ages[k]))

(***************************************************************************)
(* app.py: the session state of the chat application.                      *)
(***************************************************************************)
\* st.session_state after init_session_state has run on a new session.
init_session_state ==
  [messages |-> <<>>,
   calculation_done |-> FALSE,
   result |-> None,
   inputs |-> None,
   collected_data |-> None,
   openai_client |-> None,
   whatif_mode |-> FALSE,
   followup_messages |-> <<>>]

\* A value parsed by json.loads: a number (whole, or a rate in RateScale
\* units), a string, null, an object (a function of its keys) or an array.
json_number(v) == [json |-> "number", value |-> v]
json_string(s) == [json |-> "string", value |-> s]
json_null == [json |-> "null"]
json_array == [json |-> "array"]
json_object(items) == [json |-> "object", items |-> items]

\* The value json.loads hands to Python: null is None.
loads(v) == IF v.json = "null" THEN None ELSE v

\* bool(x) of what extract_calculation_data returns: None and {} are false.
truthy(data) ==
  /\ data # None
  /\ data.json = "object" => DOMAIN data.items # {}

Digits == <<"0", "1", "2", "3", "4", "5", "6", "7", "8", "9">>
is_digit(c) == \E d \in 1..10 : Digits[d] = c
digit_value(c) == (CHOOSE d \in 1..10 : Digits[d] = c) - 1

\* int() of a string of decimal digits.
RECURSIVE parse_digits(_)
parse_digits(s) ==
  IF s = <<>> THEN 0
  ELSE 10 * parse_digits(SubSeq(s, 1, Len(s) - 1)) + digit_value(s[Len(s)])

is_numeral(s) == s # <<>> /\ \A i \in 1..Len(s) : is_digit(s[i])

\* int(v) and float(v) raise on None, on a container and on a string that is
\* no number; they convert a number and a numeric string.
number_raises(v) ==
  \/ v = None
  \/ v.json \in {"object", "array"}
  \/ v.json = "string" /\ ~is_numeral(v.value)

number(v) == IF v.json = "string" THEN parse_digits(v.value) ELSE v.value

\* The response of the agent, as extract_calculation_data reads it: whether
\* the marker occurs in it, the text of the first ```json block and the first
\* brace-delimited text, each absent, unparsable or the value it parses to.
absent == [text |-> "absent"]
unparsable == [text |-> "unparsable"]

\* Slip: the marker is not tested.
extract_calculation_data_unmarked(response) ==
  IF response.fenced \notin {absent, unparsable} THEN loads(response.fenced)
  ELSE IF response.bare \notin {absent, unparsable} THEN loads(response.bare)
  ELSE None

extract_calculation_data(response) ==
  IF ~response.marker THEN None
  ELSE IF response.fenced \notin {absent, unparsable} THEN loads(response.fenced)
  ELSE IF response.bare \notin {absent, unparsable} THEN loads(response.bare)
  ELSE None

\* dict.get(key, default).
get(data, key, default) ==
  IF key \in DOMAIN data.items THEN loads(data.items[key]) ELSE default

\* The inflation rate perform_calculation passes, whatever the payload holds.
LockedInflationRate == (6 * RateScale) \div 100

\* The arguments of RetirementInputs(...) before their conversion.
collected(data) ==
  [current_age |-> get(data, "current_age", json_number(30)),
   retirement_age |-> get(data, "retirement_age", json_number(60)),
   life_expectancy |-> get(data, "life_expectancy", json_number(85)),
   current_annual_expenses |-> get(data, "current_annual_expenses", json_number(600000)),
   current_investments |-> get(data, "current_investments", json_number(0)),
   current_annual_income |-> get(data, "current_annual_income", json_number(0)),
   risk_profile |-> get(data, "risk_profile", json_string(str_moderate)),
   dependents |-> get(data, "dependents", json_string(str_self_spouse))]

NumberFields ==
  {"current_age", "retirement_age", "life_expectancy", "current_annual_expenses",
   "current_investments", "current_annual_income"}

\* Slip: the inflation rate of the payload is passed on.
perform_calculation_inputs_payload_inflation(data) ==
  LET c == collected(data)
  IN [current_age |-> number(c.current_age),
      retirement_age |-> number(c.retirement_age),
      life_expectancy |-> number(c.life_expectancy),
      current_annual_expenses |-> number(c.current_annual_expenses),
      current_investments |-> number(c.current_investments),
      current_annual_income |-> number(c.current_annual_income),
      risk_profile |-> lower(c.risk_profile.value),
      dependents |-> IF c.dependents = None THEN None ELSE c.dependents.value,
      inflation_rate |-> number(get(data, "inflation_rate",
                                    json_number(LockedInflationRate)))]

\* The RetirementInputs perform_calculation builds.
perform_calculation_inputs(data) ==
  LET c == collected(data)
  IN [current_age |-> number(c.current_age),
      retirement_age |-> number(c.retirement_age),
      life_expectancy |-> number(c.life_expectancy),
      current_annual_expenses |-> number(c.current_annual_expenses),
      current_investments |-> number(c.current_investments),
      current_annual_income |-> number(c.current_annual_income),
      risk_profile |-> lower(c.risk_profile.value),
      dependents |-> IF c.dependents = None THEN None ELSE c.dependents.value,
      inflation_rate |-> LockedInflationRate]

\* perform_calculation raises: data has no get (it is no object), a number
\* does not convert, risk_profile has no lower (it is no string), or the
\* calculation itself raises.
perform_calculation_raises(data) ==
  \/ data.json # "object"
  \/ \E f \in NumberFields : number_raises(collected(data)[f])
  \/ collected(data).risk_profile = None
  \/ collected(data).risk_profile.json # "string"
  \/ plan_raises(perform_calculation_inputs(data))

\* The pair perform_calculation returns.
perform_calculation_returns(inputs) ==
  [result |-> calculate_retirement_plan(inputs), inputs |-> inputs]

perform_calculation(data) == perform_calculation_returns(perform_calculation_inputs(data))

str_retire == <<"r", "e", "t", "i", "r", "e">>
str_at == <<"a", "t">>
str_when == <<"w", "h", "e", "n">>
str_by == <<"b", "y">>

\* s[i:].startswith(w).
starts_with(s, i, w) ==
  /\ i + Len(w) - 1 <= Len(s)
  /\ SubSeq(s, i, i + Len(w) - 1) = w

\* The position after the blanks that start at i (\s*).
RECURSIVE skip_blanks(_, _)
skip_blanks(s, i) ==
  IF i <= Len(s) /\ s[i] = " " THEN skip_blanks(s, i + 1) ELSE i

\* The match of retire\s*(?:at|when|by)?\s*(\d{2}) that starts at position i
\* of s, None when no match starts there.
match_at(s, i) ==
  IF ~starts_with(s, i, str_retire) THEN None
  ELSE LET j == skip_blanks(s, i + Len(str_retire))
           k == IF starts_with(s, j, str_at) THEN j + Len(str_at)
                ELSE IF starts_with(s, j, str_when) THEN j + Len(str_when)
                ELSE IF starts_with(s, j, str_by) THEN j + Len(str_by)
                ELSE j
           m == skip_blanks(s, k)
       IN IF m + 1 <= Len(s) /\ is_digit(s[m]) /\ is_digit(s[m + 1])
          THEN [group1 |-> SubSeq(s, m, m + 1)]
          ELSE None

\* re.search: the leftmost match.
search(s) ==
  LET starts == {i \in 1..Len(s) : match_at(s, i) # None}
  IN IF starts = {} THEN None
     ELSE match_at(s, CHOOSE i \in starts : \A j \in starts : i <= j)

\* The test chat_followup makes before it computes a what-if.
followup_guard(new_age, result, inputs) ==
  new_age > inputs.current_age /\ new_age # result.retirement_age

\* The locals of chat_followup: the match of the age in the message and the
\* what-if computed for it, each None when there is none, whether
\* calculate_whatif_scenario raised, and the session's record after it.
chat_followup_locals(age_match, computes, new_age, inputs) ==
  [age_match |-> age_match,
   raised |-> computes /\ plan_raises(whatif_inputs(inputs, new_age)),
   whatif_result |-> IF computes THEN calculate_whatif_scenario(inputs, new_age) ELSE None,
   inputs |-> IF computes THEN base_inputs_after(inputs, new_age) ELSE inputs]

new_age_of(age_match) == IF age_match = None THEN 0 ELSE parse_digits(age_match.group1)

chat_followup_matched(age_match, result, inputs) ==
  chat_followup_locals(age_match,
                       age_match # None
                         /\ followup_guard(new_age_of(age_match), result, inputs),
                       new_age_of(age_match), inputs)

chat_followup(user_message, result, inputs) ==
  chat_followup_matched(search(lower(user_message)), result, inputs)

\* The candidate retirement ages of display_whatif_scenarios.
display_ages == <<55, 58, 60, 62, 65>>

\* Slip: the base retirement age is compared as well.
display_guard_current_age_only(age, inputs) == age > inputs.current_age

display_guard(age, inputs) ==
  age > inputs.current_age /\ age # inputs.retirement_age

\* The loop of display_whatif_scenarios from candidate k on: the session's
\* record and the scenarios after the loop.
RECURSIVE display_loop(_, _, _)
display_loop(inputs, k, scenarios) ==
  IF k > Len(display_ages) THEN [inputs |-> inputs, scenarios |-> scenarios]
  ELSE IF display_guard(display_ages[k], inputs)
       THEN display_loop(base_inputs_after(inputs, display_ages[k]), k + 1,
                         Append(scenarios,
                                [age |-> display_ages[k],
                                 result |-> calculate_whatif_scenario(inputs,
                                                                      display_ages[k])]))
       ELSE display_loop(inputs, k + 1, scenarios)

\* The number of scenario cards shown.
MaxShown == 3

\* scenarios[:3].
shown(scenarios) ==
  SubSeq(scenarios, 1, IF Len(scenarios) < MaxShown THEN Len(scenarios) ELSE MaxShown)

\* What display_result_card has put on the page, with the session's record
\* after it: the scenarios computed and shown and the export offered, which
\* is generate_excel_plan(result, inputs), whose loop ended as export tells.
\* The run ends where a call raises: raised tells whether one did.
result_card(loop, stops, stops_in_export, export, importable) ==
  [scenarios |-> loop.scenarios,
   shown |-> shown(loop.scenarios),
   excel_data |-> IF stops \/ stops_in_export THEN None
                  ELSE excel_plan(export.whatif_data, importable),
   raised |-> stops \/ stops_in_export,
   inputs |-> IF stops \/ stops_in_export THEN loop.inputs ELSE export.inputs]

\* display_result_card after the loop of display_whatif_scenarios.
\* st.columns(0) is called when no candidate qualifies; columns_raises tells
\* whether that call raises.
display_after_loop(loop, result, importable, columns_raises) ==
  result_card(loop,
              loop.scenarios = <<>> /\ columns_raises,
              excel_raises(loop.inputs, importable),
              IF importable THEN whatif_loop(loop.inputs, 1, <<>>)
              ELSE [inputs |-> loop.inputs, whatif_data |-> <<>>],
              importable)

display_result_card(result, inputs, importable, columns_raises) ==
  display_after_loop(display_loop(inputs, 1, <<>>), result, importable, columns_raises)

\* Slip: collected_data is not cleared.
reset_chat_keeps_collected_data(state) ==
  [state EXCEPT !.messages = <<>>,
                !.calculation_done = FALSE,
                !.result = None,
                !.inputs = None,
                !.whatif_mode = FALSE,
                !.followup_messages = <<>>]

reset_chat(state) ==
  [state EXCEPT !.messages = <<>>,
                !.calculation_done = FALSE,
                !.result = None,
                !.inputs = None,
                !.collected_data = None,
                !.whatif_mode = FALSE,
                !.followup_messages = <<>>]

\* The client get_openai_client creates and caches when the key is set.
OpenAI == [type |-> "OpenAI"]

message(role, content) == [role |-> role, content |-> content]

\* The turn of the collection phase raises in perform_calculation.
collection_turn_raises(response) ==
  /\ truthy(extract_calculation_data(response))
  /\ perform_calculation_raises(extract_calculation_data(response))

\* Slip: calculation_done is set before the calculation is made.
collection_turn_done_first(asked, response, calc_data, raises, performed) ==
  IF ~truthy(calc_data)
  THEN [asked EXCEPT !.messages = Append(@, message("assistant", response))]
  ELSE IF raises
  THEN [asked EXCEPT !.collected_data = calc_data, !.calculation_done = TRUE]
  ELSE [asked EXCEPT !.collected_data = calc_data,
                     !.result = performed.result,
                     !.inputs = performed.inputs,
                     !.calculation_done = TRUE,
                     !.messages = Append(@, message("assistant", response))]

\* The session after a turn of the collection phase of main, from the
\* session asked (the user's message is appended and the agent has been
\* called) and the data extracted from the response, up to the st.rerun()
\* that ends the turn or the exception that leaves perform_calculation.
collection_turn_after(asked, response, calc_data, raises, performed) ==
  IF ~truthy(calc_data)
  THEN [asked EXCEPT !.messages = Append(@, message("assistant", response))]
  ELSE IF raises
  THEN [asked EXCEPT !.collected_data = calc_data]
  ELSE [asked EXCEPT !.collected_data = calc_data,
                     !.result = performed.result,
                     !.inputs = performed.inputs,
                     !.calculation_done = TRUE,
                     !.messages = Append(@, message("assistant", response))]

collection_turn(state, prompt, response) ==
  collection_turn_after([state EXCEPT !.messages = Append(@, message("user", prompt)),
                                      !.openai_client = OpenAI],
                        response,
                        extract_calculation_data(response),
                        collection_turn_raises(response),
                        perform_calculation(extract_calculation_data(response)))

\* Slip: the what-if replaces the plan of the session.
followup_turn_in_place(state, prompt, response, locals) ==
  [state EXCEPT !.followup_messages =
                  Append(Append(@, message("user", prompt)),
                         message("assistant", response)),
                !.openai_client = OpenAI,
                !.result = IF locals.whatif_result = None THEN @
                           ELSE locals.whatif_result]

\* The session after a turn of the follow-up phase of main, in which
\* chat_followup had these locals: up to the st.rerun() that ends it or the
\* exception that leaves chat_followup.
followup_turn(state, prompt, response, locals) ==
  IF locals.raised
  THEN [state EXCEPT !.followup_messages = Append(@, message("user", prompt)),
                     !.openai_client = OpenAI]
  ELSE [state EXCEPT !.followup_messages =
                       Append(Append(@, message("user", prompt)),
                              message("assistant", response)),
                     !.openai_client = OpenAI,
                     !.inputs = locals.inputs]

\* The opening message main appends to an empty conversation.
initial_message == <<"H", "e", "l", "l", "o", "!">>

(***************************************************************************)
(* The calls explored.                                                     *)
(***************************************************************************)
str_Moderate == <<"M", "o", "d", "e", "r", "a", "t", "e">>
str_BALANCED == <<"B", "A", "L", "A", "N", "C", "E", "D">>
str_AGGRESSIVE == <<"A", "G", "G", "R", "E", "S", "S", "I", "V", "E">>
str_Conservative == <<"C", "o", "n", "s", "e", "r", "v", "a", "t", "i", "v", "e">>
str_risky == <<"r", "i", "s", "k", "y">>
str_empty == <<>>

RiskProfileChoices ==
  {str_conservative, str_moderate, str_balanced, str_aggressive, str_Moderate,
   str_BALANCED, str_AGGRESSIVE, str_Conservative, str_risky, str_empty}

AgeChoices == MinAge..MaxAge
YearChoices == (-1)..MaxYears
ExpenseChoices == {0, 600000, 672000}
InvestmentChoices == {0, 500000, 5000000}
IncomeChoices == {0, 600000, 650000}
DependentsChoices == {str_self_spouse, str_children}

RetirementInputs ==
  [current_age : AgeChoices,
   retirement_age : AgeChoices,
   life_expectancy : AgeChoices,
   current_annual_expenses : ExpenseChoices,
   current_investments : InvestmentChoices,
   current_annual_income : IncomeChoices,
   risk_profile : {str_conservative, str_moderate, str_BALANCED, str_AGGRESSIVE, str_risky},
   dependents : DependentsChoices,
   inflation_rate : {DefaultInflationRate}]

\* The example of the module's __main__ block.
test_inputs ==
  [current_age |-> 35,
   retirement_age |-> 60,
   life_expectancy |-> 85,
   current_annual_expenses |-> 600000,
   current_investments |-> 500000,
   current_annual_income |-> 1200000,
   risk_profile |-> str_moderate,
   dependents |-> str_self_spouse,
   inflation_rate |-> DefaultInflationRate]

\* Records with decades to save and to provide for: the example with
\* other ages, amounts and profiles.
LongHorizonInputs ==
  {[test_inputs EXCEPT !.current_age = c, !.retirement_age = whatif_ages[k],
                       !.current_annual_expenses = e, !.current_investments = v,
                       !.risk_profile = p] :
     c \in {35, 50}, k \in DOMAIN whatif_ages, e \in ExpenseChoices,
     v \in InvestmentChoices, p \in {str_conservative, str_moderate, str_AGGRESSIVE}}

\* The example with expenses so small that the contribution is below, next to
\* and above half a rounding unit.
SmallExpenseInputs ==
  {[test_inputs EXCEPT !.current_annual_expenses = e, !.current_investments = 0] :
     e \in {1000, 6000, 12000}}

\* The base records of the what-if calls: income and dependents are not the
\* defaults of the dataclass.
WhatifBaseChoices ==
  {i \in RetirementInputs :
     i.current_annual_income = 650000 /\ i.dependents = str_children}
    \cup {[i EXCEPT !.dependents = str_children] : i \in LongHorizonInputs}

WhatifCalls ==
  {<<i, a>> : i \in WhatifBaseChoices \cap RetirementInputs, a \in AgeChoices}
    \cup {<<i, whatif_ages[k]>> : i \in WhatifBaseChoices \ RetirementInputs,
                                   k \in DOMAIN whatif_ages}

\* Current ages below, between, at and above the candidate retirement ages.
ExportAgeChoices == {35, 54, 55, 58, 61, 64, 65, 66}

ExportInputs ==
  {[test_inputs EXCEPT !.current_age = c, !.current_annual_expenses = e,
                       !.current_investments = v, !.risk_profile = p] :
     c \in ExportAgeChoices, e \in ExpenseChoices, v \in InvestmentChoices,
     p \in {str_conservative, str_moderate, str_AGGRESSIVE}}

RateChoices ==
  {0, DefaultInflationRate} \cup {rates[k] : k \in DOMAIN rates}

\* Return rates at, inside, on the edge of and outside the band of width
\* 0.0001 around the inflation rate.
CorpusRateChoices ==
  {DefaultInflationRate + d : d \in {-20000, -200, -100, -50, 0, 50, 100, 200}}
    \cup {rates[k] : k \in DOMAIN rates}

\* Return rates next to the edge of that band, on either side of it.
BandEdgeRateChoices ==
  {DefaultInflationRate + d : d \in {-101, -100, -99, 99, 100, 101}}

\* Retirement durations of decades.
LongDurationChoices == {25, 40}

\* Amounts at and next to 0, the rounding ties and the 50000 threshold.
AmountChoices ==
  ((-1)..1) \cup (249..251) \cup (749..751) \cup (49749..49751) \cup (49999..50001)
    \cup (50249..50251) \cup (50499..50501) \cup (51499..51501) \cup {-500, 87400}

Calls ==
  [fn : {"get_return_rate"}, args : {<<p>> : p \in RiskProfileChoices}]
    \cup [fn : {"calculate_future_value"},
          args : {-1000, 0, 1000, 600000} \X RateChoices \X YearChoices]
    \cup [fn : {"calculate_corpus_for_retirement"},
          args : {-1000, 0, 636000} \X CorpusRateChoices \X {DefaultInflationRate}
                   \X YearChoices]
    \cup [fn : {"calculate_corpus_for_retirement"},
          args : {0, 636000, 2575121} \X BandEdgeRateChoices \X {DefaultInflationRate}
                   \X ((1..MaxYears) \cup LongDurationChoices)]
    \cup [fn : {"calculate_monthly_sip"},
          args : {-100, 0, 1000, 634000} \X RateChoices \X YearChoices]
    \cup [fn : {"round_to_clean_figure"}, args : {<<a>> : a \in AmountChoices}]
    \cup [fn : {"calculate_whatif_scenario"}, args : WhatifCalls]
    \cup [fn : {"generate_excel_plan"},
          args : ExportInputs \X BOOLEAN]
    \cup [fn : {"calculate_retirement_plan"},
          args : {<<i>> : i \in RetirementInputs \cup LongHorizonInputs
                                 \cup SmallExpenseInputs}]

Init ==
  /\ pc = "ready"
  /\ call \in Calls
  /\ ret = 0
  /\ session_state = init_session_state

Return(raises, value) ==
  /\ pc' = IF raises THEN "raised" ELSE "returned"
  /\ ret' = IF raises THEN 0 ELSE value
  /\ UNCHANGED <<call, session_state>>

GetReturnRate ==
  /\ pc = "ready"
  /\ call.fn = "get_return_rate"
  /\ Return(FALSE, get_return_rate(call.args[1]))

CalculateFutureValue ==
  /\ pc = "ready"
  /\ call.fn = "calculate_future_value"
  /\ Return(FALSE, calculate_future_value(call.args[1], call.args[2], call.args[3]))

CalculateCorpusForRetirement ==
  /\ pc = "ready"
  /\ call.fn = "calculate_corpus_for_retirement"
  /\ Return(corpus_raises(call.args[2], call.args[3], call.args[4]),
            calculate_corpus_for_retirement(call.args[1], call.args[2], call.args[3],
                                            call.args[4]))

CalculateMonthlySip ==
  /\ pc = "ready"
  /\ call.fn = "calculate_monthly_sip"
  /\ Return(sip_raises(call.args[1], call.args[2], call.args[3]),
            calculate_monthly_sip(call.args[1], call.args[2], call.args[3]))

RoundToCleanFigure ==
  /\ pc = "ready"
  /\ call.fn = "round_to_clean_figure"
  /\ Return(FALSE, round_to_clean_figure(call.args[1], DefaultToNearest))

CalculateRetirementPlan ==
  /\ pc = "ready"
  /\ call.fn = "calculate_retirement_plan"
  /\ Return(plan_raises(call.args[1]), calculate_retirement_plan(call.args[1]))

CalculateWhatifScenario ==
  /\ pc = "ready"
  /\ call.fn = "calculate_whatif_scenario"
  /\ pc' = IF plan_raises(whatif_inputs(call.args[1], call.args[2]))
           THEN "raised" ELSE "returned"
  /\ ret' = IF plan_raises(whatif_inputs(call.args[1], call.args[2]))
            THEN 0 ELSE calculate_whatif_scenario(call.args[1], call.args[2])
  /\ call' = [call EXCEPT !.args[1] = base_inputs_after(call.args[1], call.args[2])]
  /\ UNCHANGED session_state

\* call.args = <<inputs, importable>>; the result passed is the plan of the
\* inputs, as display_result_card of app.py passes it.
GenerateExcelPlan ==
  /\ pc = "ready"
  /\ call.fn = "generate_excel_plan"
  /\ pc' = IF excel_raises(call.args[1], call.args[2]) THEN "raised" ELSE "returned"
  /\ ret' = IF excel_raises(call.args[1], call.args[2]) THEN 0
            ELSE generate_excel_plan(calculate_retirement_plan(call.args[1]),
                                     call.args[1], call.args[2])
  /\ call' = IF call.args[2]
             THEN [call EXCEPT !.args[1] = whatif_loop(call.args[1], 1, <<>>).inputs]
             ELSE call
  /\ UNCHANGED session_state

Next ==
  \/ GetReturnRate
  \/ CalculateFutureValue
  \/ CalculateCorpusForRetirement
  \/ CalculateMonthlySip
  \/ RoundToCleanFigure
  \/ CalculateRetirementPlan
  \/ CalculateWhatifScenario
  \/ GenerateExcelPlan

Spec == Init /\ [][Next]_vars

(***************************************************************************)
(* The base plan and what-if scenarios of one caller's record, run in any  *)
(* interleaving.  Invocation 0 is calculate_retirement_plan(inputs),        *)
(* invocation k is calculate_whatif_scenario(inputs, whatif_ages[k]).  An   *)
(* invocation takes two steps: it is entered, which binds its parameters,   *)
(* and it computes and returns.                                             *)
(***************************************************************************)
BatchInputs ==
  {[test_inputs EXCEPT !.current_age = c, !.risk_profile = p,
                       !.current_annual_income = 650000, !.dependents = str_children] :
     c \in {35, 50}, p \in {str_moderate, str_AGGRESSIVE}}

BatchInit ==
  \E i \in BatchInputs, ages \in SUBSET DOMAIN whatif_ages :
    /\ pc = [t \in {0} \cup ages |-> "ready"]
    /\ call = [fn |-> "batch", args |-> <<i>>, frames |-> [t \in ages |-> None]]
    /\ ret = [t \in {0} \cup ages |-> 0]
    /\ session_state = init_session_state

\* calculate_retirement_plan is entered: its parameter is the caller's record
\* itself, not a copy.
PlanEnter ==
  /\ pc[0] = "ready"
  /\ pc' = [pc EXCEPT ![0] = "called"]
  /\ UNCHANGED <<call, ret, session_state>>

\* The body of calculate_retirement_plan reads the caller's record.
PlanReturn ==
  /\ pc[0] = "called"
  /\ pc' = [pc EXCEPT ![0] = IF plan_raises(call.args[1]) THEN "raised" ELSE "returned"]
  /\ ret' = [ret EXCEPT ![0] = IF plan_raises(call.args[1]) THEN 0
                                ELSE calculate_retirement_plan(call.args[1])]
  /\ UNCHANGED <<call, session_state>>

\* calculate_whatif_scenario builds its own record from the caller's.
WhatifEnter(k) ==
  /\ pc[k] = "ready"
  /\ pc' = [pc EXCEPT ![k] = "called"]
  /\ call' = [call EXCEPT
                !.frames[k] = whatif_inputs(call.args[1], whatif_ages[k]),
                !.args[1] = base_inputs_after(call.args[1], whatif_ages[k])]
  /\ UNCHANGED <<ret, session_state>>

\* calculate_whatif_scenario returns the plan of the record it built.
WhatifReturn(k) ==
  /\ pc[k] = "called"
  /\ pc' = [pc EXCEPT ![k] = IF plan_raises(call.frames[k]) THEN "raised" ELSE "returned"]
  /\ ret' = [ret EXCEPT ![k] = IF plan_raises(call.frames[k]) THEN 0
                                ELSE calculate_retirement_plan(call.frames[k])]
  /\ UNCHANGED <<call, session_state>>

NextBatch ==
  \/ PlanEnter
  \/ PlanReturn
  \/ \E k \in DOMAIN call.frames : WhatifEnter(k)
  \/ \E k \in DOMAIN call.frames : WhatifReturn(k)

SpecBatch == BatchInit /\ [][NextBatch]_vars

(***************************************************************************)
(* The chat session of app.py.  Streamlit runs main from the top on every  *)
(* interaction and on st.rerun(); one run is one action.  Under SpecSession *)
(* pc is "rerun" while a run is pending and "idle" while the page waits for *)
(* the user, call holds the interaction that started the run and the        *)
(* environment of the session, and ret holds what the run put on the page.  *)
(***************************************************************************)
\* User turns of one conversation.
MaxTurns == 3

str_Retire_at_58 ==
  <<"W", "h", "a", "t", " ", "i", "f", " ", "I", " ", "R", "e", "t", "i", "r", "e",
    " ", "a", "t", " ", "5", "8", "?">>
str_retire_by_60 == <<"r", "e", "t", "i", "r", "e", " ", "b", "y", " ", "6", "0">>
str_retire_when30 == <<"r", "e", "t", "i", "r", "e", " ", " ", "w", "h", "e", "n", "3", "0">>
str_retirement_65 ==
  <<"r", "e", "t", "i", "r", "e", "m", "e", "n", "t", " ", "6", "5">>
str_answer == <<"3", "5">>
str_reply == <<"o", "k">>

FollowupPrompts ==
  {str_Retire_at_58, str_retire_by_60, str_retire_when30, str_retirement_65}

\* Payloads of the completion signal.  The first holds every field, in the
\* agent's own spelling, and an inflation rate of its own.
full_payload ==
  json_object([current_age |-> json_number(35),
               retirement_age |-> json_number(60),
               life_expectancy |-> json_number(85),
               current_annual_expenses |-> json_number(600000),
               current_investments |-> json_number(500000),
               current_annual_income |-> json_number(1200000),
               risk_profile |-> json_string(str_Moderate),
               dependents |-> json_string(str_children),
               inflation_rate |-> json_number((8 * RateScale) \div 100)])

Payloads ==
  {full_payload,
   json_object([risk_profile |-> json_string(str_AGGRESSIVE)]),
   json_object([current_age |-> json_number(64)]),
   json_object([current_age |-> json_number(66), dependents |-> json_null]),
   json_object([current_age |-> json_string(<<"5", "8">>),
                retirement_age |-> json_number(65),
                current_annual_expenses |-> json_string(<<"6", "7", "2", "0", "0", "0">>)])}

\* Payloads perform_calculation cannot convert.
BadPayloads ==
  {json_object([current_age |-> json_string(<<"a", "b", "c">>)]),
   json_array}

response(marker, fenced, bare) == [marker |-> marker, fenced |-> fenced, bare |-> bare]

Responses ==
  {response(FALSE, absent, absent),
   response(FALSE, full_payload, full_payload),
   response(TRUE, unparsable, unparsable),
   response(TRUE, json_null, absent),
   response(TRUE, absent, json_object(<<>>)),
   response(TRUE, unparsable, full_payload)}
    \cup {response(TRUE, p, absent) : p \in (Payloads \ {full_payload}) \cup BadPayloads}

no_event == [widget |-> "none"]
button == [widget |-> "button"]
chat_input(prompt, reply) == [widget |-> "chat_input", prompt |-> prompt, response |-> reply]

page(card, input, followup) == [card |-> card, chat_input |-> input, followup |-> followup]

\* The number of user messages of the conversation.
user_turns(state) ==
  Cardinality({i \in DOMAIN state.messages : state.messages[i].role = "user"})
    + Cardinality({i \in DOMAIN state.followup_messages :
                     state.followup_messages[i].role = "user"})

\* display_result_card(result, inputs), tabulated for the records the
\* payloads yield: pairs of the arguments and the card.  The card does not
\* depend on result.
result_cards ==
  {<<a, display_result_card(None, a[1], a[2], a[3])>> :
     a \in {perform_calculation_inputs(p) : p \in Payloads} \X BOOLEAN \X BOOLEAN}

\* The value paired with the arguments in the table.
lookup(table, arguments) == (CHOOSE t \in table : t[1] = arguments)[2]

\* The result card main displays at the top of a run, None when there is no
\* plan yet.
card(state, environ) ==
  IF state.calculation_done /\ state.result # None
  THEN lookup(result_cards,
              <<state.inputs, environ.importable, environ.columns_raises>>)
  ELSE None

after_card(state, c) == IF c = None THEN state ELSE [state EXCEPT !.inputs = c.inputs]

SessionInit ==
  /\ pc = "rerun"
  /\ call \in [fn : {"main"}, args : {<<no_event>>},
               environ : [OPENAI_API_KEY : BOOLEAN, importable : BOOLEAN,
                          columns_raises : BOOLEAN]]
  /\ ret = page(None, "none", None)
  /\ session_state = init_session_state

\* main from the result card c on, in a run without an interaction.
AfterCard(c) ==
  IF c # None /\ c.raised
  THEN /\ pc' = "idle"
       /\ ret' = page(c, "none", None)
       /\ session_state' = after_card(session_state, c)
  ELSE IF session_state.messages = <<>>
  THEN /\ pc' = "rerun"
       /\ ret' = page(c, "none", None)
       /\ session_state' =
            [after_card(session_state, c) EXCEPT
               !.messages = <<message("assistant", initial_message)>>]
  ELSE /\ pc' = "idle"
       /\ ret' = page(c, IF session_state.calculation_done THEN "followup"
                         ELSE "collection",
                      None)
       /\ session_state' = after_card(session_state, c)

\* A run without an interaction: the first one, or the one st.rerun() starts.
\* It returns before the card when the key is not set.
Rerun ==
  /\ pc = "rerun"
  /\ call' = [call EXCEPT !.args = <<no_event>>]
  /\ IF ~call.environ.OPENAI_API_KEY
     THEN /\ pc' = "idle"
          /\ ret' = page(None, "none", None)
          /\ UNCHANGED session_state
     ELSE AfterCard(card(session_state, call.environ))

\* The run the button of the sidebar starts.
ResetChat ==
  /\ pc = "idle"
  /\ call' = [call EXCEPT !.args = <<button>>]
  /\ session_state' = reset_chat(session_state)
  /\ pc' = "rerun"
  /\ ret' = page(None, "none", None)

\* The run an answer typed during data collection starts.
CollectionTurn ==
  /\ pc = "idle"
  /\ ret.chat_input = "collection"
  /\ user_turns(session_state) < MaxTurns
  /\ \E r \in Responses :
       /\ call' = [call EXCEPT !.args = <<chat_input(str_answer, r)>>]
       /\ session_state' = collection_turn(session_state, str_answer, r)
       /\ pc' = IF collection_turn_raises(r) THEN "idle" ELSE "rerun"
       /\ ret' = page(None, "collection", None)

\* main after the result card, in a run a follow-up question starts, in which
\* chat_followup has these locals.
Followup(prompt, locals) ==
  /\ call' = [call EXCEPT !.args = <<chat_input(prompt, str_reply)>>]
  /\ session_state' = followup_turn(session_state, prompt, str_reply, locals)
  /\ pc' = IF locals.raised THEN "idle" ELSE "rerun"
  /\ ret' = page(ret.card, "followup", locals)

\* The run a follow-up question starts.  It displays the result card again:
\* the session is as the run before left it, and ret holds the card of that
\* run.
FollowupTurn ==
  /\ pc = "idle"
  /\ ret.chat_input = "followup"
  /\ user_turns(session_state) < MaxTurns
  /\ \E prompt \in FollowupPrompts :
       Followup(prompt,
                chat_followup(prompt, session_state.result, session_state.inputs))

NextSession ==
  \/ Rerun
  \/ ResetChat
  \/ CollectionTurn
  \/ FollowupTurn

SpecSession == SessionInit /\ [][NextSession]_vars

(***************************************************************************)
(* Properties.                                                             *)
(***************************************************************************)
PlanReturned == pc = "returned" /\ call.fn = "calculate_retirement_plan"

\* C1: in every result of calculate_retirement_plan, corpus_gap is
\* max(0, corpus_required - future_investment_value), so it is never
\* negative, also when the projected investments exceed the required corpus.
CorpusGapFloored ==
  PlanReturned =>
    /\ ret.corpus_gap >= 0
    /\ ret.corpus_gap =
         IF ret.corpus_required - ret.future_investment_value > 0
         THEN ret.corpus_required - ret.future_investment_value
         ELSE 0

\* A plan whose projected investments exceed a positive required corpus.
CorpusGapFlooredWitness ==
  /\ PlanReturned
  /\ ret.corpus_required > 0
  /\ ret.future_investment_value > ret.corpus_required
  /\ ret.corpus_gap = 0

\* C2: in every result, monthly_savings_rounded is divisible by 500 when it
\* is at most 50000 and by 1000 when it is above 50000.
RoundedIsMultipleOfUnit ==
  PlanReturned =>
    /\ ret.monthly_savings_rounded <= 50000 => ret.monthly_savings_rounded % 500 = 0
    /\ ret.monthly_savings_rounded > 50000 => ret.monthly_savings_rounded % 1000 = 0

\* A plan at the threshold: the exact contribution is above 50000, so the
\* unit is 1000, and it rounds down to 50000.
RoundedIsMultipleOfUnitWitness ==
  /\ PlanReturned
  /\ ret.monthly_savings_required > 50000
  /\ ret.monthly_savings_rounded = 50000

\* C3: for non-negative expenses and investments, monthly_savings_required
\* and monthly_savings_rounded of the result are never negative.
SavingsNonNegative ==
  /\ PlanReturned
  /\ call.args[1].current_annual_expenses >= 0
  /\ call.args[1].current_investments >= 0
  => /\ ret.monthly_savings_required >= 0
     /\ ret.monthly_savings_rounded >= 0

\* A plan with time to save whose shortfall before flooring is negative,
\* and whose contribution is zero.
SavingsNonNegativeWitness ==
  /\ PlanReturned
  /\ ret.years_to_retirement > 0
  /\ ret.corpus_required - ret.future_investment_value < 0
  /\ ret.monthly_savings_required = 0
  /\ ret.monthly_savings_rounded = 0

\* v is a multiple of u nearest to a.
NearestMultiple(v, a, u) == v % u = 0 /\ 2 * Abs(v - a) <= u

RoundReturned == pc = "returned" /\ call.fn = "round_to_clean_figure"

\* C4: round_to_clean_figure returns 0 for amount <= 0, the nearest multiple
\* of 500 for 0 < amount <= 50000 and the nearest multiple of 1000 above;
\* the result keeps the exact contribution as monthly_savings_required
\* next to its rounding monthly_savings_rounded.
RoundToCleanFigureContract ==
  /\ RoundReturned =>
       LET amount == call.args[1]
       IN /\ amount <= 0 => ret = 0
          /\ amount > 0 /\ amount <= 50000 => NearestMultiple(ret, amount, 500)
          /\ amount > 50000 => NearestMultiple(ret, amount, 1000)
  /\ PlanReturned =>
       /\ ret.monthly_savings_required =
            calculate_monthly_sip(ret.corpus_gap, ret.expected_return_rate,
                                  ret.years_to_retirement)
       /\ ret.monthly_savings_required > 0 =>
            NearestMultiple(ret.monthly_savings_rounded, ret.monthly_savings_required,
                            IF ret.monthly_savings_required > 50000 THEN 1000 ELSE 500)

\* An amount just above the threshold, rounded with the unit 1000.
RoundToCleanFigureContractWitness ==
  /\ RoundReturned
  /\ call.args[1] = 50499
  /\ ret = 50000

\* s and t are equal up to the case of their letters.
SameIgnoringCase(s, t) ==
  /\ Len(s) = Len(t)
  /\ \A i \in 1..Len(s) :
       \/ s[i] = t[i]
       \/ \E k \in 1..26 : {s[i], t[i]} = {UpperCase[k], LowerCase[k]}

\* n per cent as a rate.
Percent(n) == (n * RateScale) \div 100

RateReturned == call.fn = "get_return_rate" /\ pc # "ready"

\* C5: get_return_rate maps the profile, compared without regard to case,
\* conservative to 0.08, moderate and balanced to 0.12, aggressive to 0.15 and
\* every other string to 0.12, and never fails; the expected_return_rate of
\* every result is one of 0.08, 0.12, 0.15.
ReturnRateMapping ==
  /\ RateReturned =>
       LET p == call.args[1]
       IN /\ pc = "returned"
          /\ ret = IF SameIgnoringCase(p, str_conservative) THEN Percent(8)
                   ELSE IF SameIgnoringCase(p, str_aggressive) THEN Percent(15)
                   ELSE Percent(12)
          /\ SameIgnoringCase(p, str_moderate) \/ SameIgnoringCase(p, str_balanced)
               => ret = Percent(12)
  /\ PlanReturned => ret.expected_return_rate \in {Percent(8), Percent(12), Percent(15)}

\* A profile written in capitals that is given its own rate.
ReturnRateMappingWitness ==
  /\ RateReturned
  /\ call.args[1] = str_AGGRESSIVE
  /\ ret = Percent(15)

FutureValueReturned == pc = "returned" /\ call.fn = "calculate_future_value"

\* C6: calculate_future_value(pv, rate, years) returns pv for years <= 0,
\* whatever the rate, and pv * (1 + rate)^years for years > 0.
FutureValueContract ==
  FutureValueReturned =>
    LET pv == call.args[1]
        rate == call.args[2]
        years == call.args[3]
    IN /\ years <= 0 => ret = pv
       /\ years > 0 => ret = Mul(pv, Pow(One + rate, years))

\* A negative horizon with a positive rate and value: no growth applied.
FutureValueContractWitness ==
  /\ FutureValueReturned
  /\ call.args[3] < 0
  /\ call.args[2] > 0
  /\ call.args[1] > 0
  /\ ret = call.args[1]

CorpusReturned == pc = "returned" /\ call.fn = "calculate_corpus_for_retirement"

\* C7: calculate_corpus_for_retirement(pmt, r, g, n) returns 0 for n <= 0,
\* pmt * n / (1 + r) when |r - g| < 0.0001 and
\* pmt * (1 - ((1+g)/(1+r))^n) / (r - g) otherwise, floored at 0.
CorpusContract ==
  CorpusReturned =>
    LET pmt == call.args[1]
        r == call.args[2]
        g == call.args[3]
        n == call.args[4]
        value == IF Abs(r - g) * 10000 < RateScale
                 THEN Div(pmt * n, One + r)
                 ELSE growing_annuity(pmt, r, g, n)
    IN /\ n <= 0 => ret = 0
       /\ n > 0 => ret = IF value > 0 THEN value ELSE 0
       /\ ret >= 0

\* Rates that differ by less than 0.0001 without being equal.
CorpusContractWitness ==
  /\ CorpusReturned
  /\ call.args[2] # call.args[3]
  /\ Abs(call.args[2] - call.args[3]) * 10000 < RateScale
  /\ call.args[4] > 0
  /\ ret > 0

SipReturned == pc = "returned" /\ call.fn = "calculate_monthly_sip"

\* C8: calculate_monthly_sip(fv, r, years) returns 0 when years <= 0 or
\* fv <= 0; otherwise, with i = r / 12 and m = years * 12, fv / m when i = 0
\* and fv * i / ((1+i)^m - 1) when i # 0.
MonthlySipContract ==
  SipReturned =>
    LET fv == call.args[1]
        r == call.args[2]
        years == call.args[3]
        i == FMulDiv(r, 1, 12)
        m == years * 12
    IN /\ years <= 0 \/ fv <= 0 => ret = 0
       /\ years > 0 /\ fv > 0 /\ i = 0 => ret = FMulDiv(fv, 1, m)
       /\ years > 0 /\ fv > 0 /\ i # 0 =>
            ret = Mul(fv, Div(i, Pow(One + i, m) - One))

\* A positive target over a positive horizon at a positive rate.
MonthlySipContractWitness ==
  /\ SipReturned
  /\ call.args[1] > 0
  /\ call.args[2] > 0
  /\ call.args[3] > 0
  /\ ret > 0

PlanCalled == call.fn = "calculate_retirement_plan" /\ pc # "ready"

NonPositiveHorizon ==
  \/ call.args[1].retirement_age <= call.args[1].current_age
  \/ call.args[1].life_expectancy <= call.args[1].retirement_age

\* C9 as stated: with a non-positive horizon (retirement_age <= current_age or
\* life_expectancy <= retirement_age) the plan is returned with
\* corpus_required, monthly_savings_required and monthly_savings_rounded 0.
NonPositiveHorizonAllZero ==
  PlanCalled /\ NonPositiveHorizon =>
    /\ pc = "returned"
    /\ ret.corpus_required = 0
    /\ ret.monthly_savings_required = 0
    /\ ret.monthly_savings_rounded = 0

\* C9 as amended: with a non-positive horizon the plan is returned with
\* monthly_savings_required and monthly_savings_rounded 0; corpus_required is
\* 0 when life_expectancy <= retirement_age.
NonPositiveHorizonZeroContribution ==
  PlanCalled /\ NonPositiveHorizon =>
    /\ pc = "returned"
    /\ ret.monthly_savings_required = 0
    /\ ret.monthly_savings_rounded = 0
    /\ call.args[1].life_expectancy <= call.args[1].retirement_age
         => ret.corpus_required = 0

\* No time left to save, years of retirement to fund: the corpus is positive,
\* and larger than the investments, and the contribution is 0.
NonPositiveHorizonZeroContributionWitness ==
  /\ PlanReturned
  /\ call.args[1].retirement_age < call.args[1].current_age
  /\ call.args[1].life_expectancy > call.args[1].retirement_age
  /\ ret.corpus_gap > 0
  /\ ret.monthly_savings_required = 0

\* C10: when life_expectancy <= retirement_age, corpus_required, corpus_gap,
\* monthly_savings_required and monthly_savings_rounded are all 0, whatever
\* the expenses, the investments and the risk profile.
NoRetirementDurationAllZero ==
  PlanReturned /\ call.args[1].life_expectancy <= call.args[1].retirement_age =>
    /\ ret.corpus_required = 0
    /\ ret.corpus_gap = 0
    /\ ret.monthly_savings_required = 0
    /\ ret.monthly_savings_rounded = 0

\* No retirement duration, with expenses, no investments and time to save.
NoRetirementDurationAllZeroWitness ==
  /\ PlanReturned
  /\ call.args[1].life_expectancy < call.args[1].retirement_age
  /\ call.args[1].retirement_age > call.args[1].current_age
  /\ call.args[1].current_annual_expenses > 0
  /\ call.args[1].current_investments = 0
  /\ ret.corpus_required = 0

TimelineUnclamped ==
  PlanReturned =>
    /\ ret.years_to_retirement = call.args[1].retirement_age - call.args[1].current_age
    /\ ret.retirement_duration = call.args[1].life_expectancy - call.args[1].retirement_age

\* A result with both differences negative.
TimelineUnclampedWitness ==
  /\ PlanReturned
  /\ ret.years_to_retirement < 0
  /\ ret.retirement_duration < 0

\* C13: income_expense_flag is true exactly when current_annual_income > 0
\* and current_annual_expenses > current_annual_income; it is false when the
\* income is 0.
IncomeExpenseFlagIff ==
  PlanReturned =>
    /\ ret.income_expense_flag \in BOOLEAN
    /\ ret.income_expense_flag <=>
         (call.args[1].current_annual_income > 0
            /\ call.args[1].current_annual_expenses > call.args[1].current_annual_income)
    /\ call.args[1].current_annual_income = 0 => ~ret.income_expense_flag

\* No income given, positive expenses, flag false.
IncomeExpenseFlagIffWitness ==
  /\ PlanReturned
  /\ call.args[1].current_annual_income = 0
  /\ call.args[1].current_annual_expenses > 0
  /\ ~ret.income_expense_flag

\* The timeline, monetary and rate fields of a result.
ComputedFields(result) ==
  <<result.years_to_retirement, result.retirement_duration,
    result.future_annual_expenses, result.corpus_required,
    result.future_investment_value, result.corpus_gap,
    result.monthly_savings_required, result.monthly_savings_rounded,
    result.expected_return_rate>>

\* C14: records that differ only in current_annual_income and dependents
\* have results with the same timeline, monetary and rate fields.
AdvisoryFieldsDoNotInterfere ==
  PlanReturned =>
    \A income \in IncomeChoices, dep \in DependentsChoices :
      ComputedFields(ret) =
        ComputedFields(calculate_retirement_plan(
          [call.args[1] EXCEPT !.current_annual_income = income, !.dependents = dep]))

\* A flagged result with a positive contribution.
AdvisoryFieldsDoNotInterfereWitness ==
  /\ PlanReturned
  /\ ret.income_expense_flag
  /\ ret.monthly_savings_required > 0

\* C17: with everything else fixed, for retirement ages a < b that both exceed
\* current_age and stay below life_expectancy, monthly_savings_required at b
\* is at most the one at a.
MonotoneInRetirementAge ==
  PlanReturned /\ call.args[1].retirement_age > call.args[1].current_age =>
    \A b \in (call.args[1].retirement_age + 1)..MaxRetirementAge :
      b < call.args[1].life_expectancy =>
        monthly_savings([call.args[1] EXCEPT !.retirement_age = b])
          <= ret.monthly_savings_required

\* A positive contribution at an age that has a later age to compare with,
\* where the contribution is smaller but still positive.
MonotoneInRetirementAgeWitness ==
  /\ PlanReturned
  /\ call.args[1].retirement_age > call.args[1].current_age
  /\ call.args[1].retirement_age + 1 < call.args[1].life_expectancy
  /\ call.args[1].retirement_age + 1 <= MaxRetirementAge
  /\ ret.monthly_savings_required > 0
  /\ LET later == monthly_savings([call.args[1] EXCEPT
                                     !.retirement_age = call.args[1].retirement_age + 1])
     IN later > 0 /\ later < ret.monthly_savings_required

\* x is within a thousandth of v.
About(x, v) == Abs(x - v) * 1000 <= v

\* C20: the worked scenario (35, 60, 85, expenses 600000, investments 500000,
\* income 1200000, moderate) gives years_to_retirement 25, retirement_duration
\* 25, rate 0.12, future_annual_expenses 600000 * 1.06^25, about 2,575,000,
\* future_investment_value 500000 * 1.12^25, about 8,500,000, the gap
\* max(0, corpus_required - future_investment_value), a rounded contribution
\* that is a multiple of its unit, and the flag false.
WorkedScenario ==
  PlanReturned /\ call.args[1] = test_inputs =>
    /\ ret.years_to_retirement = 25
    /\ ret.retirement_duration = 25
    /\ ret.expected_return_rate = Percent(12)
    /\ ret.future_annual_expenses = Mul(600000, Pow(One + Percent(6), 25))
    /\ About(ret.future_annual_expenses, 2575000)
    /\ ret.future_investment_value = Mul(500000, Pow(One + Percent(12), 25))
    /\ About(ret.future_investment_value, 8500000)
    /\ ret.corpus_gap =
         IF ret.corpus_required > ret.future_investment_value
         THEN ret.corpus_required - ret.future_investment_value
         ELSE 0
    /\ ret.monthly_savings_rounded % (IF ret.monthly_savings_rounded > 50000
                                      THEN 1000 ELSE 500) = 0
    /\ ret.income_expense_flag = FALSE

\* The plan of the worked scenario: a shortfall and a contribution of 12500.
WorkedScenarioWitness ==
  /\ PlanReturned
  /\ call.args[1] = test_inputs
  /\ ret.corpus_gap > 0
  /\ ret.monthly_savings_rounded = 12500

WhatifReturned == pc = "returned" /\ call.fn = "calculate_whatif_scenario"

\* C15: calculate_whatif_scenario(base, age) returns the plan of the record
\* that equals base in every field except retirement_age, which is age, and
\* leaves the base record as it was.
WhatifContract ==
  [][call.fn = "calculate_whatif_scenario" /\ pc = "ready" =>
       /\ pc' = "returned"
       /\ call' = call
       /\ ret' = calculate_retirement_plan(
                   [call.args[1] EXCEPT !.retirement_age = call.args[2]])]_vars

\* A what-if at another age than the base's: the result has the new age and
\* the base record still has its own.
WhatifContractWitness ==
  /\ WhatifReturned
  /\ call.args[1].retirement_age # call.args[2]
  /\ ret.retirement_age = call.args[2]
  /\ ret.dependents = str_children
  /\ ret.corpus_required > 0

\* C16: calculate_whatif_scenario(base, base.retirement_age) returns a result
\* equal, field by field, to calculate_retirement_plan(base).
WhatifIdentity ==
  WhatifReturned /\ call.args[2] = call.args[1].retirement_age =>
    ret = calculate_retirement_plan(call.args[1])

\* A what-if at the base's own age, with a positive contribution.
WhatifIdentityWitness ==
  /\ WhatifReturned
  /\ call.args[2] = call.args[1].retirement_age
  /\ ret.monthly_savings_required > 0

\* The candidate ages above the current age, in the order of the list.
AgesAbove(current_age) == SelectSeq(whatif_ages, LAMBDA age : age > current_age)

\* C19: generate_excel_plan computes one what-if scenario for each of the
\* ages 55, 58, 60, 62, 65 that is strictly greater than inputs.current_age,
\* in that order and for no other age, each by calculate_whatif_scenario on
\* the inputs as passed, which it leaves unmodified; the what-if sheet is
\* written iff at least one age qualifies.
ExportBatch ==
  [][call.fn = "generate_excel_plan" /\ pc = "ready" /\ call.args[2] =>
       LET inputs == call.args[1]
           ages == AgesAbove(inputs.current_age)
       IN /\ pc' = "returned"
          /\ call' = call
          /\ ret'.whatif_data =
               [k \in 1..Len(ages) |->
                  whatif_row(ages[k], calculate_whatif_scenario(inputs, ages[k]))]
          /\ ret'.sheets =
               IF ages = <<>> THEN <<"Inputs", "Calculations", "Assumptions & Disclaimers">>
               ELSE <<"Inputs", "Calculations", "What-If Scenarios",
                      "Assumptions & Disclaimers">>]_vars

\* An export for a 58 year old: rows for 60, 62 and 65, and a what-if sheet.
ExportBatchWitness ==
  /\ pc = "returned"
  /\ call.fn = "generate_excel_plan"
  /\ call.args[2]
  /\ call.args[1].current_age = 58
  /\ Len(ret.whatif_data) = 3
  /\ ret.whatif_data[1].retirement_age = 60
  /\ ret.whatif_data[3].monthly_sip_required > 0
  /\ ret.sheets[3] = "What-If Scenarios"

\* The result of invocation t when it runs alone on the caller's record.
Alone(t, inputs) ==
  IF t = 0 THEN calculate_retirement_plan(inputs)
  ELSE calculate_whatif_scenario(inputs, whatif_ages[t])

\* C18: in every interleaving of the base plan and any set of what-if
\* scenarios on one input record, no step changes the caller's record, the
\* record another invocation has built or a result already returned, no
\* invocation raises, and each invocation returns what it returns when it
\* runs alone.
IndependentInvocations ==
  [][/\ call'.args = call.args
     /\ \A k \in DOMAIN call.frames :
          call.frames[k] # None => call'.frames[k] = call.frames[k]
     /\ \A t \in DOMAIN pc :
          /\ pc'[t] # "raised"
          /\ pc[t] = "returned" => pc'[t] = "returned" /\ ret'[t] = ret[t]
          /\ pc[t] # "returned" /\ pc'[t] = "returned" =>
               ret'[t] = Alone(t, call.args[1])]_vars

\* The what-if at 55 has returned while the base plan and the what-if at 65
\* are running and the what-if at 60 has not started.
IndependentInvocationsWitness ==
  /\ {1, 3, 5} \subseteq DOMAIN call.frames
  /\ pc[0] = "called"
  /\ pc[1] = "returned"
  /\ pc[3] = "ready"
  /\ pc[5] = "called"
  /\ ret[1].retirement_age = 55
  /\ ret[1].monthly_savings_rounded > 0

\* The return rate at the edge of the band |r - g| < 0.0001, on the side of r.
InsideEdge(r, g) == IF r > g THEN g + RateScale \div 10000 - 1 ELSE g - RateScale \div 10000 + 1

\* The call is made with a return rate just outside the band.
JustOutside == Abs(call.args[2] - call.args[3]) \in {RateScale \div 10000, RateScale \div 10000 + 1}

ResultReturned ==
  /\ pc = "returned"
  /\ call.fn \in {"calculate_retirement_plan", "calculate_whatif_scenario"}

\* C29: in every result corpus_gap = 0 implies monthly_savings_required = 0
\* and monthly_savings_rounded = 0, and corpus_gap > 0 with
\* years_to_retirement > 0 implies monthly_savings_required > 0.
GapAndContributionConsistent ==
  ResultReturned =>
    /\ ret.corpus_gap = 0 =>
         ret.monthly_savings_required = 0 /\ ret.monthly_savings_rounded = 0
    /\ ret.corpus_gap > 0 /\ ret.years_to_retirement > 0 =>
         ret.monthly_savings_required > 0

\* The investments cover a positive corpus, with years left to save.
GapAndContributionConsistentWitness ==
  /\ ResultReturned
  /\ ret.years_to_retirement > 0
  /\ ret.corpus_required > 0
  /\ ret.corpus_gap = 0
  /\ ret.monthly_savings_rounded = 0

\* C30 as claimed: the rounded contribution is within 250 of the exact one up
\* to 50000 and within 500 above, and a positive exact contribution gives a
\* positive rounded one.
RoundedCloseAndPositive ==
  ResultReturned =>
    LET exact == ret.monthly_savings_required
        rounded == ret.monthly_savings_rounded
    IN /\ exact <= 50000 => Abs(rounded - exact) <= 250
       /\ exact > 50000 => Abs(rounded - exact) <= 500
       /\ exact > 0 => rounded > 0

\* C30, amended: the rounded contribution is within 250 of the exact one up
\* to 50000 and within 500 above, and an exact contribution above 250 gives a
\* positive rounded one.
RoundedClose ==
  ResultReturned =>
    LET exact == ret.monthly_savings_required
        rounded == ret.monthly_savings_rounded
    IN /\ exact <= 50000 => Abs(rounded - exact) <= 250
       /\ exact > 50000 => Abs(rounded - exact) <= 500
       /\ exact > 250 => rounded > 0

\* An exact contribution between 250 and 500 is rounded up to 500.
RoundedCloseWitness ==
  /\ ResultReturned
  /\ ret.monthly_savings_required > 250
  /\ ret.monthly_savings_required < 500
  /\ ret.monthly_savings_rounded = 500

(***************************************************************************)
(* Properties of the chat session (SpecSession).                           *)
(***************************************************************************)
\* The what-if of the follow-up turn the state ends, None when it made none.
FollowupWhatif == IF ret.followup = None THEN None ELSE ret.followup.whatif_result

\* The page shows a result card.
CardShown == ret.card # None

\* C21: every plan of the session has the inflation rate 0.06, the one of
\* its inputs: the base plan perform_calculation built from the payload, and
\* the what-ifs of the follow-up chat, of the comparison on the page and of
\* the export.
InflationFixed ==
  /\ session_state.result # None =>
       /\ session_state.inputs.inflation_rate = (6 * RateScale) \div 100
       /\ session_state.result.inflation_rate = session_state.inputs.inflation_rate
  /\ FollowupWhatif # None =>
       FollowupWhatif.inflation_rate = (6 * RateScale) \div 100
  /\ CardShown =>
       /\ \A k \in DOMAIN ret.card.scenarios :
            ret.card.scenarios[k].result.inflation_rate = (6 * RateScale) \div 100
       /\ ret.card.excel_data # None =>
            \A k \in DOMAIN whatif_ages :
              qualifies(whatif_ages[k], session_state.inputs) =>
                calculate_whatif_scenario(session_state.inputs,
                                          whatif_ages[k]).inflation_rate
                  = (6 * RateScale) \div 100

\* A plan built from a payload that names an inflation rate of its own, with
\* what-ifs on the page, in the export and in the follow-up chat.
InflationFixedWitness ==
  /\ session_state.calculation_done
  /\ "inflation_rate" \in DOMAIN session_state.collected_data.items
  /\ session_state.collected_data.items.inflation_rate.value
       # (6 * RateScale) \div 100
  /\ CardShown
  /\ ret.card.scenarios # <<>>
  /\ ret.card.excel_data # None
  /\ ret.card.excel_data.whatif_data # <<>>
  /\ FollowupWhatif # None

\* C22: while the session holds a result, no run replaces result or inputs
\* but the one the reset button starts: not a follow-up turn, with or without
\* a what-if, nor the comparison and the export of a result card.
BasePlanKept ==
  [][session_state.result # None =>
       \/ /\ session_state'.result = session_state.result
          /\ session_state'.inputs = session_state.inputs
       \/ call'.args = <<button>>]_vars

\* A follow-up turn has computed a what-if for another retirement age, under
\* a card with scenarios and an export, and the session's plan is the base
\* plan.
BasePlanKeptWitness ==
  /\ FollowupWhatif # None
  /\ CardShown
  /\ ret.card.scenarios # <<>>
  /\ ret.card.excel_data # None
  /\ session_state.result.retirement_age # FollowupWhatif.retirement_age
  /\ Len(session_state.followup_messages) = 2

\* The context of a session is as init_session_state leaves it; the client,
\* which holds nothing of a plan, aside.
InitialContext(state) ==
  /\ state.messages = <<>>
  /\ state.calculation_done = FALSE
  /\ state.result = None
  /\ state.inputs = None
  /\ state.collected_data = None
  /\ state.whatif_mode = FALSE
  /\ state.followup_messages = <<>>

\* C23: the run of the reset button leaves the context in its initial state,
\* whatever the session held, and the run after it shows no result card and
\* holds at most the opening message: a collection phase with nothing of the
\* plan before.
ResetRestores ==
  [][/\ call'.args = <<button>> =>
          /\ InitialContext(session_state')
          /\ pc' = "rerun"
     /\ call.args = <<button>> =>
          /\ InitialContext([session_state' EXCEPT !.messages = <<>>])
          /\ session_state'.messages
               \in {<<>>, <<message("assistant", initial_message)>>}
          /\ ret'.card = None]_vars

\* The reset of a session that has talked to the agent.
ResetRestoresWitness ==
  /\ call.args = <<button>>
  /\ session_state.openai_client # None
  /\ InitialContext(session_state)

\* The values perform_calculation gives the fields a payload does not hold.
FieldDefaults ==
  [current_age |-> 30,
   retirement_age |-> 60,
   life_expectancy |-> 85,
   current_annual_expenses |-> 600000,
   current_investments |-> 0,
   current_annual_income |-> 0,
   risk_profile |-> str_moderate,
   dependents |-> str_self_spouse]

\* The response holds the marker and a JSON object that is not empty.
CompletionSignal(r) ==
  /\ r.marker
  /\ \E v \in {r.fenced, r.bare} \ {absent, unparsable} :
       /\ v.json = "object"
       /\ DOMAIN v.items # {}

\* C25: a turn of the collection phase sets result, inputs and
\* calculation_done only on a response that holds the marker and a JSON
\* object that is not empty; without one the session stays in the collection
\* phase, with no plan.  Each field the payload does not hold has its default
\* in the inputs.
CalculatorOnSignal ==
  [][~session_state.calculation_done /\ call'.args[1].widget = "chat_input" =>
       /\ session_state'.calculation_done =>
            /\ CompletionSignal(call'.args[1].response)
            /\ session_state'.result # None
            /\ session_state'.inputs # None
            /\ \A f \in DOMAIN FieldDefaults :
                 f \notin DOMAIN session_state'.collected_data.items =>
                   session_state'.inputs[f] = FieldDefaults[f]
       /\ ~CompletionSignal(call'.args[1].response) =>
            /\ ~session_state'.calculation_done
            /\ session_state'.result = None
            /\ session_state'.inputs = None]_vars

\* A plan computed from a payload that holds the risk profile only.
CalculatorOnSignalWitness ==
  /\ call.args[1].widget = "chat_input"
  /\ session_state.calculation_done
  /\ DOMAIN session_state.collected_data.items = {"risk_profile"}
  /\ session_state.inputs.current_age = 30
  /\ session_state.inputs.risk_profile = str_aggressive
  /\ Len(session_state.messages) > 3

\* C26: whenever calculation_done is true, result and inputs are set and
\* result is the plan of inputs.
DoneHasPlan ==
  session_state.calculation_done =>
    /\ session_state.result # None
    /\ session_state.inputs # None
    /\ session_state.result = calculate_retirement_plan(session_state.inputs)

\* A plan made in a conversation that has an answer before the completion
\* signal and a follow-up question after it.
DoneHasPlanWitness ==
  /\ session_state.calculation_done
  /\ session_state.result # None
  /\ Len(session_state.messages) = 5
  /\ session_state.followup_messages # <<>>

\* The run is a user turn: a message typed into the chat input started it.
UserTurn == call'.args[1].widget = "chat_input"

\* The two messages a turn adds.
Exchange ==
  <<message("user", call'.args[1].prompt),
    message("assistant", call'.args[1].response)>>

\* C27: calculation_done turns false in the run of the reset button only;
\* while it is false a user turn appends the user's message and the
\* agent's response to messages and leaves followup_messages, and while it
\* is true a user turn appends the two to followup_messages and leaves
\* messages.
PhaseOrdering ==
  [][/\ session_state.calculation_done /\ ~session_state'.calculation_done =>
          call'.args = <<button>>
     /\ UserTurn /\ ~session_state.calculation_done =>
          /\ session_state'.messages = session_state.messages \o Exchange
          /\ session_state'.followup_messages = session_state.followup_messages
     /\ UserTurn /\ session_state.calculation_done =>
          /\ session_state'.followup_messages
               = session_state.followup_messages \o Exchange
          /\ session_state'.messages = session_state.messages]_vars

\* The scenarios of the card are those of ages, in their order.
RECURSIVE DrawnFrom(_, _)
DrawnFrom(scenarios, ages) ==
  \/ scenarios = <<>>
  \/ /\ ages # <<>>
     /\ \/ DrawnFrom(scenarios, Tail(ages))
        \/ /\ Head(scenarios).age = Head(ages)
           /\ DrawnFrom(Tail(scenarios), Tail(ages))

\* C28: the follow-up chat and the comparison on the page compute a what-if
\* for a retirement age only if it is above inputs.current_age and is not the
\* base retirement age, so each has years_to_retirement > 0; the page shows
\* at most 3 scenarios, of ages among 55, 58, 60, 62 and 65.
WhatifGuarded ==
  /\ FollowupWhatif # None =>
       /\ FollowupWhatif.retirement_age = new_age_of(ret.followup.age_match)
       /\ FollowupWhatif.retirement_age > session_state.inputs.current_age
       /\ FollowupWhatif.retirement_age # session_state.result.retirement_age
       /\ FollowupWhatif.years_to_retirement > 0
  /\ CardShown =>
       /\ \A k \in DOMAIN ret.card.scenarios :
            /\ ret.card.scenarios[k].result.retirement_age = ret.card.scenarios[k].age
            /\ ret.card.scenarios[k].age > session_state.inputs.current_age
            /\ ret.card.scenarios[k].age # session_state.result.retirement_age
            /\ ret.card.scenarios[k].result.years_to_retirement > 0
       /\ Len(ret.card.shown) <= 3
       /\ \A k \in DOMAIN ret.card.shown : ret.card.shown[k] = ret.card.scenarios[k]
       /\ DrawnFrom(ret.card.shown, <<55, 58, 60, 62, 65>>)

\* Four candidates qualify and three are shown, and the follow-up chat has
\* computed a what-if.
WhatifGuardedWitness ==
  /\ CardShown
  /\ Len(ret.card.scenarios) = 4
  /\ Len(ret.card.shown) = 3
  /\ FollowupWhatif # None

====
